---- MODULE Spec2Model ----
(* A model of the buttsbot chat bot (src/index.js): the per-channel runtime   *)
(* state, the message handler onMessage, the command handler handleCommand    *)
(* and the text pipeline buttify (tokenize, isWord, isGoodTarget,             *)
(* shuffleInPlace, replaceWord, styleLike), with the helpers sanitizeWord,    *)
(* clamp and shouldSkip.                                                      *)
(*                                                                            *)
(* Strings are sequences of characters; a character is a one-element TLA+     *)
(* string ("a", "!", " "), except two non-ASCII letters and a combining mark  *)
(* that are spelled out ("e_acute", "E_ACUTE", "m_acute"). A string is a     *)
(* sequence of UTF-16 code units: "hi_sur" followed by "lo_sur" is one letter *)
(* outside the basic plane (a surrogate pair), which the patterns with the u  *)
(* flag read as one character and slice, length and indexing as two.          *)
(* JavaScript numbers are records: Num(v), NaN, or Inf(sign). Fractions       *)
(* (the rate, Math.random()) are counted in units of 1/RandUnit.              *)
EXTENDS Integers, Sequences, FiniteSets, TLC

VARIABLES
    state,        \* the Map `state`: configured channel -> its config record
    clock,        \* what Date.now() returns
    pending,      \* client.say calls whose promise is not settled yet
    warned,       \* whether onMessage has logged a 'say() failed' warning
    sendLog,      \* history: channel -> the times of its transformation sends
    last,         \* history: the latest inbound event and what its handler did
    arg,          \* input of the pure-function specifications
    res           \* result of the pure-function specifications

vars == <<state, clock, pending, warned, sendLog, last, arg, res>>

--------------------------------------------------------------------------
(* Characters                                                               *)

AsciiLowerTab == <<"a","b","c","d","e","f","g","h","i","j","k","l","m","n","o","p",
                   "q","r","s","t","u","v","w","x","y","z">>
AsciiUpperTab == <<"A","B","C","D","E","F","G","H","I","J","K","L","M","N","O","P",
                   "Q","R","S","T","U","V","W","X","Y","Z">>
\* every cased letter of the model, lowercase and uppercase forms paired by index
LowerTab == AsciiLowerTab \o <<"e_acute">>
UpperTab == AsciiUpperTab \o <<"E_ACUTE">>
DigitTab == <<"0","1","2","3","4","5","6","7","8","9">>

Range(f) == {f[i] : i \in DOMAIN f}

AsciiLower == Range(AsciiLowerTab)
AsciiUpper == Range(AsciiUpperTab)
AsciiLetters == AsciiLower \cup AsciiUpper
Digits == Range(DigitTab)
Letters == Range(LowerTab) \cup Range(UpperTab)
Marks == {"m_acute"}
Spaces == {" ", "\t"}
WordChars == AsciiLetters \cup Digits \cup {"_"}

\* \p{L}, \p{M}, \p{N}
IsLetter(c) == c \in Letters
IsMark(c) == c \in Marks
IsNumber(c) == c \in Digits

\* \s as String.prototype.trim and /\s+/ see it
IsSpace(c) == c \in Spaces

\* \w without the u flag: [A-Za-z0-9_]
IsWordChar(c) == c \in WordChars

\* toLowerCase and toUpperCase of one character
LowerMap == [c \in Range(UpperTab) |->
                LowerTab[CHOOSE i \in DOMAIN UpperTab : UpperTab[i] = c]]
UpperMap == [c \in Range(LowerTab) |->
                UpperTab[CHOOSE i \in DOMAIN LowerTab : LowerTab[i] = c]]
LowerCh(c) == IF c \in DOMAIN LowerMap THEN LowerMap[c] ELSE c
UpperCh(c) == IF c \in DOMAIN UpperMap THEN UpperMap[c] ELSE c

--------------------------------------------------------------------------
(* Strings                                                                  *)

ToLowerCase(s) == [i \in 1..Len(s) |-> LowerCh(s[i])]
ToUpperCase(s) == [i \in 1..Len(s) |-> UpperCh(s[i])]

\* s.slice(from) with from >= 0, 0-based
SliceFrom(s, from) == IF from >= Len(s) THEN <<>> ELSE SubSeq(s, from + 1, Len(s))
\* s.slice(0, n) with n >= 0
SliceTo(s, n) == IF n >= Len(s) THEN s ELSE SubSeq(s, 1, n)

StartsWith(s, p) == Len(p) <= Len(s) /\ SubSeq(s, 1, Len(p)) = p
StartsWithAt(s, p, i) == i + Len(p) - 1 <= Len(s) /\ SubSeq(s, i, i + Len(p) - 1) = p
Includes(s, p) == \E i \in 1..(Len(s) + 1) : StartsWithAt(s, p, i)

Trim(s) ==
    IF \A i \in 1..Len(s) : IsSpace(s[i]) THEN <<>>
    ELSE LET a == CHOOSE i \in 1..Len(s) :
                     ~IsSpace(s[i]) /\ \A j \in 1..(i-1) : IsSpace(s[j])
             b == CHOOSE i \in 1..Len(s) :
                     ~IsSpace(s[i]) /\ \A j \in (i+1)..Len(s) : IsSpace(s[j])
         IN SubSeq(s, a, b)

RECURSIVE Join(_)
\* array.join("")
Join(ts) == IF ts = <<>> THEN <<>> ELSE Head(ts) \o Join(Tail(ts))

RECURSIVE JoinSp(_)
\* array.join(' ')
JoinSp(ts) == IF ts = <<>> THEN <<>>
              ELSE IF Len(ts) = 1 THEN Head(ts)
              ELSE Head(ts) \o <<" ">> \o JoinSp(Tail(ts))

\* the end (inclusive) of the maximal run from i of positions whose flag is
\* TRUE: how far a greedy + or * of a character class matches
RunEnd(flags, i) ==
    CHOOSE e \in i..Len(flags) :
        /\ \A k \in i..e : flags[k]
        /\ (e = Len(flags) \/ ~flags[e + 1])

RECURSIVE SplitFrom(_, _)
SplitFrom(s, i) ==
    IF i > Len(s) THEN << <<>> >>
    ELSE IF \A k \in i..Len(s) : ~IsSpace(s[k]) THEN << SubSeq(s, i, Len(s)) >>
    ELSE LET p == CHOOSE k \in i..Len(s) :
                      IsSpace(s[k]) /\ \A j \in i..(k-1) : ~IsSpace(s[j])
             e == RunEnd([k \in DOMAIN s |-> IsSpace(s[k])], p)
         IN << SubSeq(s, i, p - 1) >> \o SplitFrom(s, e + 1)

\* s.split(/\s+/)
SplitWs(s) == SplitFrom(s, 1)

--------------------------------------------------------------------------
(* Numbers                                                                  *)

Num(v) == [k |-> "num", v |-> v]
NaN == [k |-> "nan", v |-> 0]
Inf(sign) == [k |-> "inf", v |-> sign]

\* x < y on numbers that are not NaN
NumLess(x, y) ==
    IF x.k = "inf" THEN x.v < 0 /\ ~(y.k = "inf" /\ y.v < 0)
    ELSE IF y.k = "inf" THEN y.v > 0
    ELSE x.v < y.v

\* Math.min, Math.max: NaN if either argument is NaN
MathMin(x, y) == IF x.k = "nan" \/ y.k = "nan" THEN NaN
                 ELSE IF NumLess(y, x) THEN y ELSE x
MathMax(x, y) == IF x.k = "nan" \/ y.k = "nan" THEN NaN
                 ELSE IF NumLess(x, y) THEN y ELSE x

\* isFinite
IsFinite(x) == x.k = "num"

\* the resolution of fractional numbers: 1 is RandUnit units
RandUnit == 1000

DigitVal(c) == (CHOOSE i \in DOMAIN DigitTab : DigitTab[i] = c) - 1

RECURSIVE DigitsVal(_)
DigitsVal(ds) == IF ds = <<>> THEN 0
                 ELSE 10 * DigitsVal(SubSeq(ds, 1, Len(ds) - 1)) + DigitVal(ds[Len(ds)])

RECURSIVE Pow10(_)
Pow10(n) == IF n = 0 THEN 1 ELSE 10 * Pow10(n - 1)

\* the longest prefix of s from position i made of digits
DigitRun(s, i) == IF i > Len(s) \/ ~IsNumber(s[i]) THEN <<>>
                  ELSE SubSeq(s, i, RunEnd([k \in DOMAIN s |-> IsNumber(s[k])], i))

\* the sign prefix common to parseInt and parseFloat: <<sign, next position>>
SignAt(s) == IF s # <<>> /\ s[1] = "-" THEN <<-1, 2>>
             ELSE IF s # <<>> /\ s[1] = "+" THEN <<1, 2>>
             ELSE <<1, 1>>

\* parseInt(s, 10): an integer
ParseInt(s0) ==
    LET s == Trim(s0)
        sg == SignAt(s)
        ds == DigitRun(s, sg[2])
    IN IF ds = <<>> THEN NaN ELSE Num(sg[1] * DigitsVal(ds))

\* parseFloat(s), in units of 1/RandUnit (digits below the resolution are
\* dropped; an exponent part is not read)
ParseFloat(s0) ==
    LET s == Trim(s0)
        sg == SignAt(s)
        ip == DigitRun(s, sg[2])
        dot == sg[2] + Len(ip)
        fp == IF dot <= Len(s) /\ s[dot] = "." THEN DigitRun(s, dot + 1) ELSE <<>>
    IN IF StartsWithAt(s, <<"I","n","f","i","n","i","t","y">>, sg[2]) THEN Inf(sg[1])
       ELSE IF ip = <<>> /\ fp = <<>> THEN NaN
       ELSE Num(sg[1] * (DigitsVal(ip) * RandUnit
                         + (DigitsVal(fp) * RandUnit) \div Pow10(Len(fp))))

\* clamp(n, a, b)
clamp(n, a, b) == MathMax(a, MathMin(b, n))

--------------------------------------------------------------------------
(* The text pipeline                                                        *)

\* position k of s is half of a surrogate pair: with the u flag the pair is
\* one character, a letter; a surrogate that is not paired is no letter
PairedAt(s, k) ==
    \/ s[k] = "hi_sur" /\ k < Len(s) /\ s[k + 1] = "lo_sur"
    \/ s[k] = "lo_sur" /\ k > 1 /\ s[k - 1] = "hi_sur"

\* [\p{L}\p{M}\p{N}\-'] and its complement class [^\p{L}\p{M}\p{N}\-'], on one
\* code unit of the basic plane
IsWordish(c) == IsLetter(c) \/ IsMark(c) \/ IsNumber(c) \/ c \in {"-", "'"}
IsSeparatorWsOnly(c) == IsSpace(c)
IsSeparator(c) == ~(IsLetter(c) \/ IsMark(c) \/ IsNumber(c) \/ c \in {"-", "'"})

\* for each position of s, whether the character there is in the class
WordishFlags(s) == [k \in DOMAIN s |-> IsWordish(s[k]) \/ PairedAt(s, k)]
SeparatorFlags(s) == [k \in DOMAIN s |-> IsSeparator(s[k]) /\ ~PairedAt(s, k)]

RECURSIVE MatchAllFrom(_, _)
\* s.match(re) with the g flag: the successive matches, a character that no
\* alternative matches being skipped
MatchAllFrom(s, i) ==
    IF i > Len(s) THEN <<>>
    ELSE IF WordishFlags(s)[i]
         THEN LET e == RunEnd(WordishFlags(s), i)
              IN << SubSeq(s, i, e) >> \o MatchAllFrom(s, e + 1)
    ELSE IF SeparatorFlags(s)[i]
         THEN LET e == RunEnd(SeparatorFlags(s), i)
              IN << SubSeq(s, i, e) >> \o MatchAllFrom(s, e + 1)
    ELSE MatchAllFrom(s, i + 1)

tokenize(s) == LET m == MatchAllFrom(s, 1) IN IF m = <<>> THEN << s >> ELSE m

isWord(token) == \E i \in 1..Len(token) :
                     \/ IsLetter(token[i]) \/ IsMark(token[i]) \/ IsNumber(token[i])
                     \/ PairedAt(token, i)

\* URL_RE = /\b((?:https?:\/\/)?(?:[\w-]+\.)+[\w-]{2,})(?:\/...)?/i
IsHostCh(c) == IsWordChar(c) \/ c = "-"
WordBoundaryAt(t, i) ==
    LET before == i > 1 /\ IsWordChar(t[i - 1])
        after == i <= Len(t) /\ IsWordChar(t[i])
    IN before # after

RECURSIVE HostAt(_, _)
\* (?:[\w-]+\.)+[\w-]{2,} matches at position p
HostAt(t, p) ==
    \E q \in (p + 1)..Len(t) :
        /\ \A k \in p..(q - 1) : IsHostCh(t[k])
        /\ t[q] = "."
        /\ \/ HostAt(t, q + 1)
           \/ q + 2 <= Len(t) /\ IsHostCh(t[q + 1]) /\ IsHostCh(t[q + 2])

S_http == <<"h","t","t","p">>
S_httpColon == S_http \o <<":","/","/">>
S_httpsColon == S_http \o <<"s",":","/","/">>
S_wwwDot == <<"w","w","w",".">>

\* the positions where the host may start when the match starts at i
SchemeEnds(t, i) ==
    {i} \cup (IF StartsWithAt(ToLowerCase(t), S_httpColon, i) THEN {i + 7} ELSE {})
        \cup (IF StartsWithAt(ToLowerCase(t), S_httpsColon, i) THEN {i + 8} ELSE {})

\* URL_RE.test(t)
UrlTest(t) == \E i \in 1..(Len(t) + 1) :
                  WordBoundaryAt(t, i) /\ \E p \in SchemeEnds(t, i) : HostAt(t, p)

RECURSIVE KeepFrom(_, _, _)
\* s.replace(re, '') with the g flag, from position i: the characters whose
\* flag is set are kept
KeepFrom(s, flags, i) ==
    IF i > Len(s) THEN <<>>
    ELSE (IF flags[i] THEN << s[i] >> ELSE <<>>) \o KeepFrom(s, flags, i + 1)

MaxWordLen == 24

\* sanitizeWord: the pattern sees characters, slice(0, 24) counts code units
sanitizeWord(s) ==
    LET t == ToLowerCase(Trim(s))
    IN SliceTo(KeepFrom(t, WordishFlags(t), 1), MaxWordLen)

S_butt == <<"b","u","t","t">>

DEFAULTS == [word |-> ToLowerCase(S_butt),
             rate |-> clamp(ParseFloat(<<"0",".","2","5">>), Num(0), Num(RandUnit)),
             maxReplacements |-> clamp(ParseInt(<<"2">>), Num(1), Num(5)),
             enabled |-> TRUE]

\* isGoodTarget(token): the second argument buttify passes is not a parameter
\* of the function, which reads DEFAULTS.word
isGoodTarget(token) ==
    LET t == Trim(token)
        lower == ToLowerCase(t)
    IN /\ t # <<>>
       /\ ~Includes(lower, DEFAULTS.word)
       /\ ~(StartsWith(t, <<"@">>) \/ StartsWith(t, <<":">>))
       /\ ~UrlTest(t)
       /\ ~(Len(t) <= 1)
       /\ ~(Includes(lower, S_http) \/ Includes(lower, S_wwwDot))

\* styleLike(source, word)
styleLike(source, word) ==
    IF ToUpperCase(source) = source /\ \E i \in 1..Len(source) : source[i] \in AsciiUpper
    THEN ToUpperCase(word)
    ELSE IF source # <<>> /\ source[1] = UpperCh(source[1])
    THEN << UpperCh(word[1]) >> \o SliceFrom(word, 1)
    ELSE ToLowerCase(word)

\* [^\p{L}\p{M}\p{N}']
IsTrailCh(c) == ~(IsLetter(c) \/ IsMark(c) \/ IsNumber(c) \/ c = "'")

\* replaceWord(token, buttWord): /^([\p{L}\p{M}\p{N}\-']+)([^\p{L}\p{M}\p{N}']*)$/u
replaceWord(token, buttWord) ==
    IF token = <<>> \/ ~WordishFlags(token)[1] THEN buttWord
    ELSE LET e == RunEnd(WordishFlags(token), 1)
             core == SubSeq(token, 1, e)
             trail == SliceFrom(token, e)
         IN IF \A i \in (e + 1)..Len(token) : IsTrailCh(token[i]) /\ ~PairedAt(token, i)
            THEN styleLike(core, buttWord) \o trail
            ELSE buttWord

\* shouldSkip(msg); the mutant forgets the `www.` test
ShouldSkipNoWww(msg) ==
    \/ msg = <<>> \/ Len(Trim(msg)) < 3
    \/ StartsWith(Trim(msg), <<"!">>)
    \/ Includes(msg, S_httpColon) \/ Includes(msg, S_httpsColon)
    \/ \A i \in 1..Len(Trim(msg)) : Trim(msg)[i] \notin AsciiLetters
shouldSkip(msg) ==
    \/ msg = <<>> \/ Len(Trim(msg)) < 3
    \/ StartsWith(Trim(msg), <<"!">>)
    \/ Includes(msg, S_httpColon) \/ Includes(msg, S_httpsColon) \/ Includes(msg, S_wwwDot)
    \/ \A i \in 1..Len(Trim(msg)) : Trim(msg)[i] \notin AsciiLetters

--------------------------------------------------------------------------
(* buttify                                                                  *)

\* the random choices of shuffleInPlace on an array of n elements: for each
\* i = n-1 .. 1 an index j = floor(Math.random() * (i + 1)) in 0..i
ShuffleChoices(n) == {js \in [1..(n - 1) -> 0..(n - 1)] : \A i \in 1..(n - 1) : js[i] <= i}

Swap(a, i, j) == [a EXCEPT ![i] = a[j], ![j] = a[i]]

RECURSIVE ShuffleFrom(_, _, _)
\* the loop of shuffleInPlace from index i (0-based) down to 1
ShuffleFrom(a, i, js) ==
    IF i < 1 THEN a ELSE ShuffleFrom(Swap(a, i + 1, js[i] + 1), i - 1, js)

shuffleInPlace(a, js) == ShuffleFrom(a, Len(a) - 1, js)

\* the indices (1-based) of the tokens that are replacement candidates
CandidateSet(tokens) == {i \in 1..Len(tokens) : isWord(tokens[i]) /\ isGoodTarget(tokens[i])}

RECURSIVE Ascending(_)
Ascending(S) == IF S = {} THEN <<>>
                ELSE LET m == CHOOSE x \in S : \A y \in S : x <= y
                     IN << m >> \o Ascending(S \ {m})

\* the array `candidates` before the shuffle
Candidates(tokens) == Ascending(CandidateSet(tokens))

\* the weighted draw: r is Math.random() in units of 1/RandUnit
ReplaceCount(r, n) ==
    LET r100 == r * 100
    IN IF r100 < 90 * RandUnit THEN 1
       ELSE IF r100 < 95 * RandUnit THEN 2
       ELSE IF r100 < 98 * RandUnit THEN 3
       ELSE IF r100 < 99 * RandUnit THEN 4
       ELSE n

\* Math.min(replaceCount, maxReplacements); the mutant forgets the cap
SliceEndUncapped(replaceCount, maxReplacements) == Num(replaceCount)
SliceEnd(replaceCount, maxReplacements) == MathMin(Num(replaceCount), maxReplacements)

\* array.slice(0, end): NaN counts as 0, a negative end counts from the back
ArraySliceTo(a, end) ==
    LET n == IF end.k = "nan" THEN 0
             ELSE IF end.k = "inf" THEN (IF end.v > 0 THEN Len(a) ELSE 0)
             ELSE IF end.v < 0 THEN (IF Len(a) + end.v < 0 THEN 0 ELSE Len(a) + end.v)
             ELSE end.v
    IN SliceTo(a, n)

\* candidates.slice(0, Math.min(replaceCount, maxReplacements)) after the shuffle
ToReplace(candidates, maxReplacements, js, r) ==
    ArraySliceTo(shuffleInPlace(candidates, js),
                 SliceEnd(ReplaceCount(r, Len(candidates)), maxReplacements))

\* tokens.map(...).join("").trim(); the mutant joins with a space
ReassembleSpaced(tokens, toReplace, buttWord) ==
    Trim(JoinSp([idx \in 1..Len(tokens) |->
                    IF idx \in Range(toReplace) THEN replaceWord(tokens[idx], buttWord)
                    ELSE tokens[idx]]))
Reassemble(tokens, toReplace, buttWord) ==
    Trim(Join([idx \in 1..Len(tokens) |->
                  IF idx \in Range(toReplace) THEN replaceWord(tokens[idx], buttWord)
                  ELSE tokens[idx]]))

\* buttify(message, buttWord, maxReplacements) from line 130 on, candidates
\* being not empty (it returns null at line 128 when it is): the output, the
\* replaced token indices (toReplace), the draw and the count it asked for
buttify(tokens, candidates, buttWord, maxReplacements, js, r) ==
    LET toReplace == ToReplace(candidates, maxReplacements, js, r)
    IN [out |-> Reassemble(tokens, toReplace, buttWord), replaced |-> Range(toReplace),
        replaceCount |-> ReplaceCount(r, Len(candidates)), draw |-> r]

--------------------------------------------------------------------------
(* Commands                                                                 *)

S_ignore == <<"i","g","n","o","r","e">>
C_ignoreme == <<"!">> \o S_ignore \o <<"m","e">>
C_buttignore == <<"!">> \o S_butt \o S_ignore
C_unignoreme == <<"!","u","n">> \o S_ignore \o <<"m","e">>
C_buttallow == <<"!">> \o S_butt \o <<"a","l","l","o","w">>
C_butt == <<"!">> \o S_butt
S_rate == <<"r","a","t","e">>
S_word == <<"w","o","r","d">>
S_max == <<"m","a","x">>
S_on == <<"o","n">>
S_off == <<"o","f","f">>

\* A reply is recorded by its kind ("ignored", "welcome", "hint", "rate",
\* "word", "max", "onoff", "usage"); "" is no reply.

\* the body of `case '!butt':` for a moderator, rest not empty
ButtSubcommand(cfg, rest) ==
    LET sub == ToLowerCase(rest[1])
    IN IF sub = S_rate /\ Len(rest) >= 2
       THEN LET v == clamp(ParseFloat(rest[2]), Num(0), Num(RandUnit))
            IN [cfg |-> [cfg EXCEPT !.rate = IF IsFinite(v) THEN v ELSE cfg.rate],
                reply |-> "rate"]
       ELSE IF sub = S_word /\ Len(rest) >= 2
       THEN LET w == sanitizeWord(JoinSp(Tail(rest)))
            IN [cfg |-> [cfg EXCEPT !.word = IF w # <<>> THEN w ELSE cfg.word],
                reply |-> "word"]
       ELSE IF sub = S_max /\ Len(rest) >= 2
       THEN LET m == clamp(ParseInt(rest[2]), Num(1), Num(5))
            IN [cfg |-> [cfg EXCEPT !.maxReplacements = m], reply |-> "max"]
       ELSE IF sub = S_on \/ sub = S_off
       THEN [cfg |-> [cfg EXCEPT !.enabled = (sub = S_on)], reply |-> "onoff"]
       ELSE [cfg |-> cfg, reply |-> "usage"]

\* the `switch (cmd.toLowerCase())` of handleCommand: the config it leaves
\* and the reply it sends
CommandSwitch(cfg, user, isMod, raw) ==
    LET parts == SplitWs(raw)
        cmd == ToLowerCase(parts[1])
        rest == Tail(parts)
    IN IF cmd \in {C_ignoreme, C_buttignore}
       THEN [cfg |-> [cfg EXCEPT !.optOut = @ \cup {user}], reply |-> "ignored"]
       ELSE IF cmd \in {C_unignoreme, C_buttallow}
       THEN [cfg |-> [cfg EXCEPT !.optOut = @ \ {user}], reply |-> "welcome"]
       ELSE IF cmd = C_butt
       THEN IF rest = <<>> THEN [cfg |-> cfg, reply |-> "hint"]
            ELSE IF ~isMod THEN [cfg |-> cfg, reply |-> ""]
            ELSE ButtSubcommand(cfg, rest)
       ELSE [cfg |-> cfg, reply |-> ""]

\* handleCommand(ch, user, isMod, raw, tags) on the config of a configured
\* channel; the mutant clears the cooldown when it handles a command
HandleCommandClearsCooldown(cfg, user, isMod, raw) ==
    [cfg |-> [CommandSwitch(cfg, user, isMod, raw).cfg EXCEPT !.cooldownUntil = 0],
     reply |-> CommandSwitch(cfg, user, isMod, raw).reply]
handleCommand(cfg, user, isMod, raw) == CommandSwitch(cfg, user, isMod, raw)

--------------------------------------------------------------------------
(* The message handler                                                      *)

CooldownMs == 1500

\* Math.random() in onMessage and in buttify, in units of 1/RandUnit
GateDraws == {0, DEFAULTS.rate.v, DEFAULTS.rate.v + 1, RandUnit - 1}
CountDraws == {0, (90 * RandUnit) \div 100, (95 * RandUnit) \div 100,
               (98 * RandUnit) \div 100, (99 * RandUnit) \div 100, RandUnit - 1}

\* channel.replace('#', '').toLowerCase()
ChannelKey(channel) ==
    ToLowerCase(IF \E i \in 1..Len(channel) : channel[i] = "#"
                THEN LET i == CHOOSE i \in 1..Len(channel) :
                                  channel[i] = "#" /\ \A j \in 1..(i - 1) : channel[j] # "#"
                     IN SubSeq(channel, 1, i - 1) \o SubSeq(channel, i + 1, Len(channel))
                ELSE channel)

\* (tags['display-name'] || tags.username || '').toLowerCase()
UserOf(tags) ==
    ToLowerCase(IF tags.displayName # <<>> THEN tags.displayName ELSE tags.username)

\* Boolean(tags.mod) || (tags.badges && tags.badges.broadcaster === '1');
\* the mutant lets everyone in
EveryoneIsMod(tags) == TRUE
isModOrBroadcaster(tags) == tags.mod \/ tags.broadcaster

\* !cfg.enabled; the mutant never sees the channel switched off
NeverDisabled(cfg) == FALSE
IsDisabled(cfg) == ~cfg.enabled

\* cfg.optOut.has(user); the mutant never finds the user
OptOutNeverFound(cfg, user) == FALSE
IsOptedOut(cfg, user) == user \in cfg.optOut

\* Math.random() > cfg.rate, g being Math.random() in units of 1/RandUnit
RateMiss(cfg, g) == NumLess(cfg.rate, Num(g))

\* now < cfg.cooldownUntil; the mutant never sees a cooldown
CooldownNeverOpen(cfg, now) == FALSE
InCooldown(cfg, now) == now < cfg.cooldownUntil

\* where onMessage returns before it calls buttify, "pass" if it does not
Gate(ch, user, msg, now, g) ==
    IF ch \notin DOMAIN state THEN "nocfg"
    ELSE LET cfg == state[ch]
         IN IF IsDisabled(cfg) THEN "disabled"
            ELSE IF IsOptedOut(cfg, user) THEN "optout"
            ELSE IF RateMiss(cfg, g) THEN "rate"
            ELSE IF InCooldown(cfg, now) THEN "cooldown"
            ELSE IF shouldSkip(msg) THEN "skip"
            ELSE "pass"

\* `out === msg`
SameAsMessage(out, msg) == out = msg

Event(channel, tags, msg, self) ==
    [channel |-> channel, tags |-> tags, msg |-> msg, self |-> self]

\* what `last` records of an event and its handling
Handled(e, path, b, reply) ==
    [channel |-> e.channel, tags |-> e.tags, msg |-> e.msg, self |-> e.self,
     path |-> path, out |-> b.out, replaced |-> b.replaced,
     replaceCount |-> b.replaceCount, draw |-> b.draw, reply |-> reply]

\* buttify was not called, or returned null
NoButtify == [out |-> <<>>, replaced |-> {}, replaceCount |-> 0, draw |-> 0]

MaxPending == 1

\* a call of client.say(target, text) that has not settled
Say(kind, target) == [kind |-> kind, target |-> target]

\* if (self) return;
OnMessageSelf(e) ==
    /\ e.self
    /\ last' = Handled(e, "self", NoButtify, "")
    /\ UNCHANGED <<state, clock, pending, warned, sendLog, arg, res>>

\* msg.startsWith('!'): handleCommand, up to its await of trySay; in the
\* mutant the channels share one config object
OnMessageCommandShared(e) ==
    /\ ~e.self
    /\ StartsWith(e.msg, <<"!">>)
    /\ LET ch == ChannelKey(e.channel)
       IN IF ch \notin DOMAIN state
          THEN /\ last' = Handled(e, "command", NoButtify, "")
               /\ UNCHANGED <<state, pending>>
          ELSE LET r == handleCommand(state[ch], UserOf(e.tags),
                                      isModOrBroadcaster(e.tags), Trim(e.msg))
               IN /\ r.reply # "" => Len(pending) < MaxPending
                  /\ state' = [c \in DOMAIN state |-> r.cfg]
                  /\ pending' = IF r.reply = "" THEN pending
                                ELSE Append(pending, Say("reply", <<"#">> \o ch))
                  /\ last' = Handled(e, "command", NoButtify, r.reply)
    /\ UNCHANGED <<clock, warned, sendLog, arg, res>>
OnMessageCommand(e) ==
    /\ ~e.self
    /\ StartsWith(e.msg, <<"!">>)
    /\ LET ch == ChannelKey(e.channel)
       IN IF ch \notin DOMAIN state
          THEN /\ last' = Handled(e, "command", NoButtify, "")
               /\ UNCHANGED <<state, pending>>
          ELSE LET r == handleCommand(state[ch], UserOf(e.tags),
                                      isModOrBroadcaster(e.tags), Trim(e.msg))
               IN /\ r.reply # "" => Len(pending) < MaxPending
                  /\ state' = [state EXCEPT ![ch] = r.cfg]
                  /\ pending' = IF r.reply = "" THEN pending
                                ELSE Append(pending, Say("reply", <<"#">> \o ch))
                  /\ last' = Handled(e, "command", NoButtify, r.reply)
    /\ UNCHANGED <<clock, warned, sendLog, arg, res>>

\* onMessage returns at one of lines 59-65, or at line 68 because buttify
\* found no candidate and returned null
OnMessageReturn(e, g) ==
    /\ ~e.self
    /\ ~StartsWith(e.msg, <<"!">>)
    /\ LET gate == Gate(ChannelKey(e.channel), UserOf(e.tags), e.msg, clock, g)
       IN /\ gate = "pass" => Candidates(tokenize(e.msg)) = <<>>
          /\ last' = Handled(e, IF gate = "pass" THEN "null" ELSE gate, NoButtify, "")
    /\ UNCHANGED <<state, clock, pending, warned, sendLog, arg, res>>

\* what onMessage does with the result of buttify: it returns at line 68 when
\* the output is the message, else arms the cooldown and calls client.say
AfterButtify(e, b) ==
    LET ch == ChannelKey(e.channel)
    IN IF b.out = <<>> \/ SameAsMessage(b.out, e.msg)
       THEN /\ last' = Handled(e, "same", b, "")
            /\ UNCHANGED <<state, pending, sendLog>>
       ELSE /\ Len(pending) < MaxPending
            /\ state' = [state EXCEPT ![ch].cooldownUntil = clock + CooldownMs]
            /\ pending' = Append(pending, Say("transform", e.channel))
            /\ sendLog' = [sendLog EXCEPT ![ch] = Append(@, clock)]
            /\ last' = Handled(e, "send", b, "")

\* onMessage reaches buttify, which finds candidates, shuffles them and
\* draws the count
OnMessageButtify(e, g) ==
    /\ ~e.self
    /\ ~StartsWith(e.msg, <<"!">>)
    /\ Gate(ChannelKey(e.channel), UserOf(e.tags), e.msg, clock, g) = "pass"
    /\ LET cfg == state[ChannelKey(e.channel)]
           tokens == tokenize(e.msg)
           candidates == Candidates(tokens)
       IN /\ candidates # <<>>
          /\ \E js \in ShuffleChoices(Len(candidates)), r \in CountDraws :
                AfterButtify(e, buttify(tokens, candidates, cfg.word,
                                        cfg.maxReplacements, js, r))
    /\ UNCHANGED <<clock, warned, arg, res>>

RemoveAt(q, i) == SubSeq(q, 1, i - 1) \o SubSeq(q, i + 1, Len(q))

\* a pending client.say resolves: the handler that awaits it ends
SayResolves(i) ==
    /\ pending' = RemoveAt(pending, i)
    /\ UNCHANGED <<state, clock, warned, sendLog, last, arg, res>>

\* a pending client.say rejects: onMessage logs a warning, trySay swallows
\* it; the mutant takes back the cooldown of a transformation that failed
SayRejectsTakesBackCooldown(i) ==
    /\ pending' = RemoveAt(pending, i)
    /\ warned' = (warned \/ pending[i].kind = "transform")
    /\ state' = IF pending[i].kind = "transform"
                THEN [state EXCEPT ![ChannelKey(pending[i].target)].cooldownUntil = 0]
                ELSE state
    /\ UNCHANGED <<clock, sendLog, last, arg, res>>
SayRejects(i) ==
    /\ pending' = RemoveAt(pending, i)
    /\ warned' = (warned \/ pending[i].kind = "transform")
    /\ UNCHANGED <<state, clock, sendLog, last, arg, res>>

StartTime == 5000
TickMs == 750
MaxTicks == 2

\* time passes
Tick ==
    /\ clock + TickMs <= StartTime + MaxTicks * TickMs
    /\ clock' = clock + TickMs
    /\ UNCHANGED <<state, pending, warned, sendLog, last, arg, res>>

--------------------------------------------------------------------------
(* Inbound events and the specification                                     *)

\* TWITCH_CHANNELS after split, trim, toLowerCase and filter
CHANNELS == { <<"c","1">> }
\* two configured channels
CHANNELS2 == { <<"c","1">>, <<"c","3">> }

Chan1 == <<"#","c","1">>
Chan2 == <<"#","c","2">>
Chan3 == <<"#","C","3">>

\* senders: a viewer with a display name, a moderator without one, and the
\* broadcaster
T_al == [displayName |-> <<"A","l">>, username |-> <<"a","l">>,
         mod |-> FALSE, broadcaster |-> FALSE]
T_mo == [displayName |-> <<>>, username |-> <<"m","o">>,
         mod |-> TRUE, broadcaster |-> FALSE]
T_bc == [displayName |-> <<"B","c">>, username |-> <<"b","c">>,
         mod |-> FALSE, broadcaster |-> TRUE]

M_hi == <<"h","i">>
M_mention == <<"@","a","b">>
M_three == <<"a","b","c"," ","d","e"," ","f","g">>
M_padded == <<" ","a","b","c"," ">>
M_butts == <<"B","u","t","t","s"," ","a","b">>

Messages == {M_mention, M_three, M_padded, M_butts}

\* messages for each test of shouldSkip
M_bang == <<" ","!","a","b">>
M_www == <<"a","b"," ">> \o S_wwwDot \o <<"c">>
M_wwwUpper == <<"W","W","W",".","A","B">>
M_httpUrl == S_httpColon \o <<"a","b">>
M_httpsUrl == <<"a","b"," ">> \o S_httpsColon
M_noAscii == <<"1","2"," ","e_acute","e_acute">>
SkipMessages == {M_hi, M_bang, M_www, M_wwwUpper, M_httpUrl, M_httpsUrl, M_noAscii, M_three}

Sp == <<" ">>
ViewerCommands == {C_buttignore, C_buttallow, C_ignoreme, C_unignoreme, C_butt}
C_rate0 == C_butt \o Sp \o S_rate \o Sp \o <<"0">>
C_rateX == C_butt \o Sp \o S_rate \o Sp \o <<"x">>
C_rate2 == C_butt \o Sp \o S_rate \o Sp \o <<"2">>
C_wordAbc == C_butt \o Sp \o S_word \o Sp \o <<"A","b","c","!">>
C_wordNone == C_butt \o Sp \o S_word \o Sp \o <<"!","!">>
C_max1 == C_butt \o Sp \o S_max \o Sp \o <<"1">>
C_maxX == C_butt \o Sp \o S_max \o Sp \o <<"x">>
C_max9 == C_butt \o Sp \o S_max \o Sp \o <<"9">>
C_max0 == C_butt \o Sp \o S_max \o Sp \o <<"0">>
C_on == C_butt \o Sp \o S_on
C_off == C_butt \o Sp \o S_off
C_rateNoArg == C_butt \o Sp \o S_rate
C_foo == <<"!","B","U","T","T">> \o Sp \o <<"f","o","o">>
C_unknown == <<"!","n","o">>
\* `!butt word <text>` with texts of more than 24 code units (the second ends
\* in a surrogate pair that straddles the limit), a text of two words, and a
\* text with a letter outside the basic plane
C_wordLong == C_butt \o Sp \o S_word \o Sp \o AsciiLowerTab
C_wordSplit == C_butt \o Sp \o S_word \o Sp
                   \o SubSeq(AsciiLowerTab, 1, MaxWordLen - 1) \o <<"hi_sur", "lo_sur">>
C_wordTwo == C_butt \o Sp \o S_word \o Sp \o <<"B","i","g"," "," ","E_ACUTE","'","s","-","1">>
C_wordPair == C_butt \o Sp \o S_word \o Sp \o <<"hi_sur", "lo_sur", "a">>
WordCommands == {C_wordAbc, C_wordNone, C_wordLong, C_wordSplit, C_wordTwo, C_wordPair}

ButtCommands == {C_rate0, C_rateX, C_rate2, C_wordAbc, C_wordNone, C_max1, C_maxX,
                 C_max9, C_max0, C_on, C_off, C_rateNoArg, C_foo}

\* events the environments share: the bot's own message, and a message and
\* a command in a channel that is not configured
InboundCommon ==
    {Event(Chan1, T_mo, M_three, TRUE),
     Event(Chan2, T_al, M_three, FALSE),
     Event(Chan2, T_mo, C_buttignore, FALSE)}

\* the environment of Spec: chat from two users, the opt-out commands and
\* the on/off switch
Inbound ==
    InboundCommon
    \cup {Event(Chan1, t, M_three, FALSE) : t \in {T_al, T_mo}}
    \cup {Event(Chan1, T_al, m, FALSE) :
             m \in {C_buttignore, C_buttallow, C_ignoreme, C_unignoreme, C_off}}
    \cup {Event(Chan1, T_mo, m, FALSE) : m \in {C_buttignore, C_on, C_off}}

\* the environment of SpecCmd: every command, from a viewer, a moderator and
\* the broadcaster, and one chat message
InboundCmd ==
    InboundCommon
    \cup {Event(Chan1, T_al, M_three, FALSE)}
    \cup {Event(Chan1, T_mo, m, FALSE) : m \in ButtCommands}
    \cup {Event(Chan1, T_al, m, FALSE) :
             m \in ViewerCommands \cup {C_rate0, C_wordAbc, C_max9, C_off, C_foo}}
    \cup {Event(Chan1, T_bc, C_off, FALSE), Event(Chan1, T_mo, C_unknown, FALSE)}

\* the environment of SpecText: the bot's own message, every chat message,
\* and the commands that set the word and the maximum
InboundText ==
    {Event(Chan1, T_mo, M_three, TRUE)}
    \cup {Event(Chan1, T_al, m, FALSE) : m \in Messages}
    \cup {Event(Chan1, T_mo, m, FALSE) : m \in {C_wordAbc, C_max1, C_maxX, C_max9}}

\* the environment of SpecSkip: chat messages that shouldSkip stops, and
\* two that it lets through
InboundSkip ==
    InboundCommon \cup {Event(Chan1, T_al, m, FALSE) : m \in SkipMessages}

\* the environment of SpecWord: `!butt word` with every text, from a
\* moderator and from a viewer, and one chat message
InboundWord ==
    InboundCommon
    \cup {Event(Chan1, T_al, M_three, FALSE), Event(Chan1, T_al, C_wordAbc, FALSE)}
    \cup {Event(Chan1, T_mo, m, FALSE) : m \in WordCommands}

\* the environment of SpecTwo: in each of two configured channels a chat
\* message, an opt-out and two moderator commands
InboundTwo ==
    InboundCommon
    \cup {Event(c, T_al, m, FALSE) : c \in {Chan1, Chan3}, m \in {M_butts, C_buttignore}}
    \cup {Event(Chan1, T_mo, m, FALSE) : m \in {C_off, C_wordAbc}}
    \cup {Event(Chan3, T_mo, m, FALSE) : m \in {C_max1, C_rate0}}

NoEvent == Event(<<>>, T_al, <<>>, FALSE)

\* the bot after start-up with the given channels configured
InitChannels(channels) ==
    /\ state = [ch \in channels |->
                   [word |-> DEFAULTS.word, rate |-> DEFAULTS.rate,
                    maxReplacements |-> DEFAULTS.maxReplacements,
                    enabled |-> DEFAULTS.enabled, optOut |-> {}, cooldownUntil |-> 0]]
    /\ clock = StartTime
    /\ pending = <<>>
    /\ warned = FALSE
    /\ sendLog = [ch \in channels |-> <<>>]
    /\ last = Handled(NoEvent, "init", NoButtify, "")

InitBot == InitChannels(CHANNELS)

Init == InitBot /\ arg = <<>> /\ res = <<>>
InitTwo == InitChannels(CHANNELS2) /\ arg = <<>> /\ res = <<>>

\* the handlers of the events of In
Handlers(In) ==
    \/ \E e \in In : OnMessageSelf(e)
    \/ \E e \in In : OnMessageCommand(e)
    \/ \E e \in In, g \in GateDraws : OnMessageReturn(e, g)
    \/ \E e \in In, g \in GateDraws : OnMessageButtify(e, g)

\* the pending sends settle
Settle ==
    \/ \E i \in 1..Len(pending) : SayResolves(i)
    \/ \E i \in 1..Len(pending) : SayRejects(i)

Next == Handlers(Inbound) \/ Settle \/ Tick
\* no command reads the clock: SpecCmd lets no time pass
NextCmd == Handlers(InboundCmd) \/ Settle
NextText == Handlers(InboundText) \/ Settle \/ Tick
NextSkip == Handlers(InboundSkip) \/ Settle \/ Tick
NextWord == Handlers(InboundWord) \/ Settle
NextTwo == Handlers(InboundTwo) \/ Settle

Spec == Init /\ [][Next]_vars
SpecCmd == Init /\ [][NextCmd]_vars
SpecText == Init /\ [][NextText]_vars
SpecSkip == Init /\ [][NextSkip]_vars
SpecWord == Init /\ [][NextWord]_vars
SpecTwo == InitTwo /\ [][NextTwo]_vars

--------------------------------------------------------------------------
(* tokenize as a pure function                                              *)

MaxLen == 3

\* a letter, a non-ASCII letter, a combining mark, a digit, the hyphen, the
\* apostrophe, two separators, and the two halves of a surrogate pair
TokAlphabet == {"a", "E_ACUTE", "m_acute", "1", "-", "'", " ", "@", "hi_sur", "lo_sur"}

Strings(A, n) == UNION {[1..k -> A] : k \in 0..n}

InitTok == InitBot /\ arg \in Strings(TokAlphabet, MaxLen) /\ res = <<>>

\* res is the array tokenize returns (never empty: `|| [s]`)
ApplyTokenize ==
    /\ res = <<>>
    /\ res' = tokenize(arg)
    /\ UNCHANGED <<state, clock, pending, warned, sendLog, last, arg>>

NextTok == ApplyTokenize

SpecTok == InitTok /\ [][NextTok]_vars

--------------------------------------------------------------------------
(* replaceWord as a pure function                                           *)

\* an ASCII letter in both cases, an uppercase non-ASCII letter, a digit, the
\* hyphen, the apostrophe and a separator
StyleAlphabet == {"a", "A", "E_ACUTE", "1", "-", "'", "!"}

\* substitute words as sanitizeWord leaves them
StyleWords == {S_butt, <<"e_acute", "b">>}

InitStyle ==
    /\ InitBot
    /\ arg \in {<<t, w>> : t \in Strings(StyleAlphabet, MaxLen) \ {<<>>}, w \in StyleWords}
    /\ res = <<>>

\* res is what replaceWord(token, buttWord) returns
ApplyReplaceWord ==
    /\ res = <<>>
    /\ res' = replaceWord(arg[1], arg[2])
    /\ UNCHANGED <<state, clock, pending, warned, sendLog, last, arg>>

NextStyle == ApplyReplaceWord

SpecStyle == InitStyle /\ [][NextStyle]_vars

--------------------------------------------------------------------------
(* Properties                                                               *)

\* the configured channel the latest event was for, if any
LastCh == ChannelKey(last.channel)
LastForConfigured == LastCh \in DOMAIN state
LastByViewer == ~last.tags.mod /\ ~last.tags.broadcaster

\* the words of a command message
Words(msg) == SplitWs(Trim(msg))
CommandOf(msg) == ToLowerCase(Words(msg)[1])
\* msg is `!butt <sub> ...` with some subcommand
IsButtWithSub(msg) == CommandOf(msg) = C_butt /\ Len(Words(msg)) >= 2
\* msg is `!butt <sub> <arg> ...`
IsButtSubArg(msg, sub) ==
    CommandOf(msg) = C_butt /\ Len(Words(msg)) >= 3 /\ ToLowerCase(Words(msg)[2]) = sub

\* C1: the number of tokens buttify substitutes in one output is at most the
\* channel's maxReplacements m, for m in 1..5, whatever the shuffle and the
\* weighted draw.
C1_CapEnforced ==
    (LastForConfigured /\ last.path \in {"send", "same"}) =>
        LET m == state[LastCh].maxReplacements
        IN (m.k = "num" /\ m.v \in 1..5) => Cardinality(last.replaced) <= m.v

\* C1 witness: with maxReplacements = 1 the draw asked for more than one token
\* and exactly one was substituted in the output that was sent.
C1_CapBinds ==
    /\ LastForConfigured /\ last.path = "send"
    /\ state[LastCh].maxReplacements = Num(1)
    /\ last.replaceCount >= 2
    /\ Cardinality(last.replaced) = 1

\* C2: in one channel any two transformation sends are at least 1500 ms
\* apart (Date.now() not going backwards), so of two messages handled less
\* than 1500 ms apart at most one is sent, whatever is still pending.
C2_Cooldown ==
    \A ch \in DOMAIN sendLog :
        \A i, j \in 1..Len(sendLog[ch]) :
            i < j => sendLog[ch][j] - sendLog[ch][i] >= CooldownMs

\* C2 witness: after two sends of the channel, a message arrives while the
\* client.say of a transformation is still pending and is stopped by the
\* cooldown.
C2_BlockedWhilePending ==
    /\ LastForConfigured /\ last.path = "cooldown"
    /\ Len(sendLog[LastCh]) = 2
    /\ \E i \in 1..Len(pending) : pending[i].kind = "transform"

IsIgnoreCmd(l) == l.path = "command" /\ CommandOf(l.msg) \in {C_ignoreme, C_buttignore}
IsAllowCmd(l) == l.path = "command" /\ CommandOf(l.msg) \in {C_unignoreme, C_buttallow}

\* C3: a message is never sent transformed while its sender is in the
\* channel's opt-out set; !buttignore / !ignoreme puts the sender in the set,
\* !buttallow / !unignoreme takes the sender out, for viewers too, and nothing
\* but the user's own !buttallow / !unignoreme removes a user from the set.
C3_OptOutHonored ==
    /\ []((LastForConfigured /\ last.path = "send")
              => UserOf(last.tags) \notin state[LastCh].optOut)
    /\ []((LastForConfigured /\ IsIgnoreCmd(last))
              => UserOf(last.tags) \in state[LastCh].optOut)
    /\ []((LastForConfigured /\ IsAllowCmd(last))
              => UserOf(last.tags) \notin state[LastCh].optOut)
    /\ [][\A ch \in DOMAIN state : \A u \in state[ch].optOut :
              u \notin state'[ch].optOut =>
                  /\ IsAllowCmd(last')
                  /\ UserOf(last'.tags) = u
                  /\ ChannelKey(last'.channel) = ch]_vars

\* C3 witness: a viewer who opted out sends a chat message and the handler
\* returns at the opt-out test.
C3_ViewerBlocked ==
    /\ LastForConfigured /\ last.path = "optout" /\ LastByViewer
    /\ UserOf(last.tags) \in state[LastCh].optOut

\* C4: a token whose lowercase form contains the channel's current substitute
\* word is never selected for replacement.
C4_NoSelfContaining ==
    (LastForConfigured /\ last.path \in {"send", "same"}) =>
        \A i \in last.replaced :
            ~Includes(ToLowerCase(tokenize(last.msg)[i]), state[LastCh].word)

\* C5: a word that directly follows `@` or `:` is never selected for
\* replacement, and the message "@ab" is never sent transformed.
C5_MentionNotEligible ==
    /\ \A i \in last.replaced :
          i > 1 => LET prev == tokenize(last.msg)[i - 1]
                   IN prev[Len(prev)] \notin {"@", ":"}
    /\ last.msg = M_mention => last.path # "send"

\* C6: `!butt <sub> ...` from a sender who is neither moderator nor
\* broadcaster sends no reply and changes nothing of the channel state.
C6_NonModSilent ==
    [][(last'.path = "command" /\ ~last'.tags.mod /\ ~last'.tags.broadcaster
            /\ IsButtWithSub(last'.msg))
        => (state' = state /\ last'.reply = "" /\ Len(pending') <= Len(pending))]_vars

\* C6 witness: a viewer has issued `!butt <sub> ...` in a configured channel.
C6_ViewerTried ==
    /\ LastForConfigured /\ last.path = "command" /\ LastByViewer
    /\ IsButtWithSub(last.msg)

\* C7: each channel's maxReplacements is an integer in 1..5.
C7_MaxInRange ==
    \A ch \in DOMAIN state :
        state[ch].maxReplacements.k = "num" /\ state[ch].maxReplacements.v \in 1..5

\* C8: `!butt rate <arg>` and `!butt max <arg>` from a moderator with a
\* non-numeric argument leave the rate, respectively maxReplacements, as it was.
C8_NonNumericKeeps ==
    [][(last'.path = "command" /\ (last'.tags.mod \/ last'.tags.broadcaster)
            /\ ChannelKey(last'.channel) \in DOMAIN state)
        => LET ch == ChannelKey(last'.channel)
               w == Words(last'.msg)
           IN /\ (IsButtSubArg(last'.msg, S_rate) /\ ParseFloat(w[3]) = NaN)
                     => state'[ch].rate = state[ch].rate
              /\ (IsButtSubArg(last'.msg, S_max) /\ ParseInt(w[3]) = NaN)
                     => state'[ch].maxReplacements = state[ch].maxReplacements]_vars

\* C9: the bot never sends an output that is the trimmed input message.
C9_NoEcho == last.path = "send" => last.out # Trim(last.msg)

\* C10: concatenating the tokens of tokenize(M) in order gives M.
C10_Lossless == res # <<>> => Join(res) = arg

\* C10 witness: a message that tokenize splits into at least three tokens.
C10_SeveralTokens == Len(res) >= 3 /\ Join(res) = arg

\* the core and the trail of a token that replaceWord's pattern matches
MatchesCoreTrail(token) ==
    /\ token # <<>> /\ IsWordish(token[1])
    /\ LET e == RunEnd([k \in DOMAIN token |-> IsWordish(token[k])], 1)
       IN \A i \in (e + 1)..Len(token) : IsTrailCh(token[i])
CoreOf(token) == SubSeq(token, 1, RunEnd([k \in DOMAIN token |-> IsWordish(token[k])], 1))
TrailOf(token) == SliceFrom(token, Len(CoreOf(token)))

IsCased(c) == LowerCh(c) # UpperCh(c)
IsUpperLetter(c) == IsCased(c) /\ c = UpperCh(c)

\* the three casing rules as the specification words them
StyledAsSpecified(core, word) ==
    IF core # <<>> /\ ToUpperCase(core) = core /\ \E i \in 1..Len(core) : IsCased(core[i])
    THEN ToUpperCase(word)
    ELSE IF core # <<>> /\ IsUpperLetter(core[1])
    THEN << UpperCh(word[1]) >> \o SliceFrom(word, 1)
    ELSE ToLowerCase(word)

\* C11: the replacement of a token with core C and trail T by the word W is
\* the first of: W uppercased if C is all uppercase with a cased letter of any
\* script; W with its first character uppercased if C starts with an uppercase
\* letter; W lowercased otherwise (C starts with a lowercase letter, a digit,
\* a hyphen or an apostrophe); followed by T unchanged.
C11_StyleRules ==
    (res # <<>> /\ MatchesCoreTrail(arg[1])) =>
        res = StyledAsSpecified(CoreOf(arg[1]), arg[2]) \o TrailOf(arg[1])

\* the four conditions of the specification's skip rule
SkipAsSpecified(msg) ==
    LET t == Trim(msg)
    IN \/ Len(t) < 3
       \/ (t # <<>> /\ t[1] = "!")
       \/ \E p \in {S_httpColon, S_httpsColon, S_wwwDot} :
              \E i \in 1..Len(msg) : StartsWithAt(msg, p, i)
       \/ ~\E i \in 1..Len(t) : t[i] \in AsciiLetters

\* a chat message (not a command) that reached the tests of onMessage
IsChat(l) == l.path \notin {"init", "self", "command"}

\* C12: onMessage stops at shouldSkip exactly the messages that meet one of
\* the four conditions (short, `!` first, an http://, https:// or www. inside,
\* no ASCII letter), and handling such a message sends nothing and leaves the
\* channel state, cooldownUntil included, as it was.
C12_SkipExact ==
    /\ [](last.path = "skip" => SkipAsSpecified(last.msg))
    /\ [](last.path \in {"null", "same", "send"} => ~SkipAsSpecified(last.msg))
    /\ [][(IsChat(last') /\ SkipAsSpecified(last'.msg))
              => (last'.path # "send" /\ state' = state /\ sendLog' = sendLog)]_vars

\* C12 witness: a message with `www.` inside got through the rate and the
\* cooldown tests and was stopped by shouldSkip.
C12_UrlSkipped == last.path = "skip" /\ Includes(last.msg, S_wwwDot)

\* l is the handling of `!butt <sub>` from a moderator or the broadcaster
IsSwitch(l, sub) ==
    /\ l.path = "command" /\ (l.tags.mod \/ l.tags.broadcaster)
    /\ IsButtWithSub(l.msg) /\ ToLowerCase(Words(l.msg)[2]) = sub

\* C13: while a channel is switched off (from a moderator's `!butt off` until
\* a moderator's `!butt on`, the only commands that change the switch) no
\* message of the channel is sent transformed, and the commands are still
\* handled: the opt-out commands and `!butt on|off` change the state and are
\* replied to.
C13_OffUntilOn ==
    /\ []((LastForConfigured /\ last.path = "send") => state[LastCh].enabled)
    /\ []((LastForConfigured /\ ~state[LastCh].enabled /\ IsIgnoreCmd(last))
              => (UserOf(last.tags) \in state[LastCh].optOut /\ last.reply = "ignored"))
    /\ []((LastForConfigured /\ ~state[LastCh].enabled /\ IsAllowCmd(last))
              => (UserOf(last.tags) \notin state[LastCh].optOut /\ last.reply = "welcome"))
    /\ []((LastForConfigured /\ IsSwitch(last, S_off))
              => (~state[LastCh].enabled /\ last.reply = "onoff"))
    /\ []((LastForConfigured /\ IsSwitch(last, S_on))
              => (state[LastCh].enabled /\ last.reply = "onoff"))
    /\ [][\A ch \in DOMAIN state :
              /\ ~state[ch].enabled => sendLog'[ch] = sendLog[ch]
              /\ (~state[ch].enabled /\ state'[ch].enabled)
                     => (IsSwitch(last', S_on) /\ ChannelKey(last'.channel) = ch)
              /\ (state[ch].enabled /\ ~state'[ch].enabled)
                     => (IsSwitch(last', S_off) /\ ChannelKey(last'.channel) = ch)]_vars

\* C13 witness: the channel has sent a transformed message, was switched off,
\* and a chat message is now stopped because the channel is off.
C13_StoppedWhileOff ==
    /\ LastForConfigured /\ last.path = "disabled"
    /\ sendLog[LastCh] # <<>> /\ ~state[LastCh].enabled

\* the latest event was for a configured channel whose cooldown window is open
InWindow == LastForConfigured /\ clock < state[LastCh].cooldownUntil

\* C14: a command that arrives while the channel's cooldown window is open
\* (now < cooldownUntil) is handled and replied to as outside the window, and
\* handling a command leaves every channel's cooldownUntil as it was.
C14_CommandsExempt ==
    /\ []((InWindow /\ IsIgnoreCmd(last))
              => (UserOf(last.tags) \in state[LastCh].optOut /\ last.reply = "ignored"))
    /\ []((InWindow /\ IsAllowCmd(last))
              => (UserOf(last.tags) \notin state[LastCh].optOut /\ last.reply = "welcome"))
    /\ []((InWindow /\ IsSwitch(last, S_off))
              => (~state[LastCh].enabled /\ last.reply = "onoff"))
    /\ []((InWindow /\ IsSwitch(last, S_on))
              => (state[LastCh].enabled /\ last.reply = "onoff"))
    /\ [][last'.path = "command"
              => \A ch \in DOMAIN state :
                     state'[ch].cooldownUntil = state[ch].cooldownUntil]_vars

\* C14 witness: a command was handled and replied to while the cooldown
\* window that a send opened was still open.
C14_RepliedInWindow ==
    /\ InWindow /\ last.path = "command" /\ last.reply # ""
    /\ sendLog[LastCh] # <<>>

\* w is a substitute word as the specification describes it
WordAsSpecified(w) ==
    /\ w # <<>> /\ Len(w) <= MaxWordLen
    /\ ToLowerCase(w) = w
    /\ \A k \in 1..Len(w) :
           \/ IsLetter(w[k]) \/ IsMark(w[k]) \/ IsNumber(w[k]) \/ w[k] \in {"-", "'"}
           \/ PairedAt(w, k)

\* the text of `!butt word <text>` has no character that sanitization keeps
TextSanitizesToEmpty(msg) ==
    LET text == JoinSp(Tail(Tail(Words(msg))))
    IN \A k \in 1..Len(text) : ~WordAsSpecified(<< LowerCh(text[k]) >>)

\* C15: whatever `!butt word <text>` commands were issued, each channel's
\* word is not empty, at most 24 characters long, lowercase and made only of
\* letters, marks, digits, hyphens and apostrophes; a text that is empty after
\* sanitization leaves the word as it was.
C15_WordWellFormed ==
    /\ [](\A ch \in DOMAIN state : WordAsSpecified(state[ch].word))
    /\ [][(last'.path = "command" /\ IsButtSubArg(last'.msg, S_word)
              /\ TextSanitizesToEmpty(last'.msg))
             => \A ch \in DOMAIN state : state'[ch].word = state[ch].word]_vars

\* C16: a client.say that fails changes nothing that later handling reads:
\* the step of the failure leaves the channel states, the send history and
\* the clock as a success leaves them and only takes the call out of the
\* pending ones (no retry), and the cooldown a transformation armed stays
\* armed whether its send failed or not.
C16_FailureIsLocal ==
    /\ [](\A ch \in DOMAIN state :
              state[ch].cooldownUntil =
                  IF sendLog[ch] = <<>> THEN 0
                  ELSE sendLog[ch][Len(sendLog[ch])] + CooldownMs)
    /\ [][\A i \in 1..Len(pending) :
              SayRejects(i) =>
                  /\ state' = state /\ sendLog' = sendLog
                  /\ clock' = clock /\ last' = last
                  /\ pending' = RemoveAt(pending, i)]_vars
    /\ [][warned' # warned => (state' = state /\ Len(pending') < Len(pending))]_vars

\* C16 witness: the send of a transformation failed, and a later message of
\* the channel was handled and sent.
C16_SentAfterFailure ==
    /\ warned /\ LastForConfigured /\ last.path = "send"
    /\ Len(sendLog[LastCh]) = 2 /\ pending # <<>>
    /\ \A i \in 1..Len(pending) : pending[i].kind = "transform"
    /\ Len(pending) < Len(sendLog[LastCh])

\* the target filter of the specification: token is eligible for the word
EligibleAsSpecified(token, word) ==
    /\ \E i \in 1..Len(token) :
           IsLetter(token[i]) \/ IsMark(token[i]) \/ IsNumber(token[i]) \/ PairedAt(token, i)
    /\ ~Includes(ToLowerCase(token), word)
    /\ Len(token) > 1
    /\ token[1] \notin {"@", ":"}
    /\ ~UrlTest(token)
    /\ ~Includes(ToLowerCase(token), S_http) /\ ~Includes(ToLowerCase(token), S_wwwDot)

EligibleIndices(msg, word) ==
    {i \in 1..Len(tokenize(msg)) : EligibleAsSpecified(tokenize(msg)[i], word)}

\* the desired count for the draw r (in units of 1/RandUnit) and n eligible
DesiredCount(r, n) ==
    IF 10 * r < 9 * RandUnit THEN 1
    ELSE IF 100 * r < 95 * RandUnit THEN 2
    ELSE IF 100 * r < 98 * RandUnit THEN 3
    ELSE IF 100 * r < 99 * RandUnit THEN 4
    ELSE n

Min3(a, b, c) == CHOOSE x \in {a, b, c} : x <= a /\ x <= b /\ x <= c

\* C17: when buttify runs on a message with n >= 1 eligible tokens, a draw r
\* and maxReplacements m in 1..5, the substituted indices are eligible ones,
\* and there are exactly min(d, n, m) of them, d being 1, 2, 3, 4 or n by the
\* thresholds 0.90, 0.95, 0.98, 0.99 on r.
C17_CountIsMin ==
    (LastForConfigured /\ last.path \in {"send", "same"}
        /\ state[LastCh].maxReplacements.k = "num"
        /\ state[LastCh].maxReplacements.v \in 1..5) =>
        LET eligible == EligibleIndices(last.msg, state[LastCh].word)
            n == Cardinality(eligible)
        IN /\ last.replaced \subseteq eligible
           /\ n >= 1 => Cardinality(last.replaced)
                            = Min3(DesiredCount(last.draw, n), n,
                                   state[LastCh].maxReplacements.v)

\* the number of whitespace characters s begins with, and ends with
LeadWs(s) == Cardinality({i \in 1..Len(s) : \A j \in 1..i : IsSpace(s[j])})
TrailWs(s) == Cardinality({i \in 1..Len(s) : \A j \in i..Len(s) : IsSpace(s[j])})

RECURSIVE OffsetOf(_, _, _, _)
\* where token i starts (0-based) in the untrimmed output, a chosen token
\* taking the length of the word
OffsetOf(tokens, chosen, word, i) ==
    IF i = 1 THEN 0
    ELSE OffsetOf(tokens, chosen, word, i - 1)
            + (IF (i - 1) \in chosen THEN Len(word) ELSE Len(tokens[i - 1]))

\* C18: in the output of buttify every token that was not chosen (every
\* separator, every other word) stands unchanged at its place, the places
\* shifted only by the chosen tokens before it, and the output is as long as
\* that leaves it: it differs from the message only at the chosen tokens and
\* by the whitespace trimmed at both ends.
C18_Frame ==
    (LastForConfigured /\ last.path \in {"send", "same"}) =>
        LET tokens == tokenize(last.msg)
            word == state[LastCh].word
            total == OffsetOf(tokens, last.replaced, word, Len(tokens) + 1)
            lead == LeadWs(last.msg)
            tail == TrailWs(last.msg)
        IN /\ Len(last.out) = total - lead - tail
           /\ \A i \in (1..Len(tokens)) \ last.replaced :
                  \A k \in 1..Len(tokens[i]) :
                      LET p == OffsetOf(tokens, last.replaced, word, i) + k
                      IN (p > lead /\ p <= total - tail) => last.out[p - lead] = tokens[i][k]

\* C18 witness: a message of three words was sent with one word substituted,
\* the two others and the separators kept.
C18_OneOfThree ==
    /\ LastForConfigured /\ last.path = "send"
    /\ Len(tokenize(last.msg)) >= 5 /\ Cardinality(last.replaced) = 1

\* C19: while a channel's rate is 0 no message of the channel is sent
\* transformed, whatever Math.random() returns in [0, 1), 0 included.
C19_RateZeroSilent ==
    (LastForConfigured /\ last.path = "send") => state[LastCh].rate # Num(0)

\* the channel an event is for: its name without the `#`, in lowercase
KeyAsSpecified(channel) == ToLowerCase(SelectSeq(channel, LAMBDA c : c # "#"))

\* C20: handling an event for channel A leaves the config (word, rate,
\* maxReplacements, enabled, optOut, cooldownUntil) and the send history of
\* every other configured channel as they were, the set of configured
\* channels never changes, and an event for a channel that is not configured
\* changes no state and sends nothing.
C20_Isolated ==
    /\ [][/\ DOMAIN state' = DOMAIN state
          /\ \A ch \in DOMAIN state :
                 ch # KeyAsSpecified(last'.channel)
                     => (state'[ch] = state[ch] /\ sendLog'[ch] = sendLog[ch])
          /\ KeyAsSpecified(last'.channel) \notin DOMAIN state
                 => (state' = state /\ sendLog' = sendLog
                         /\ Len(pending') <= Len(pending))]_vars
    /\ [](KeyAsSpecified(last.channel) \notin DOMAIN state
              => (last.reply = "" /\ last.path \in {"init", "self", "command", "nocfg"}))

\* C20 witness: one channel sends a transformed message while the other one,
\* switched off and given another word, keeps its own state.
C20_OtherChannelSends ==
    /\ LastCh = <<"c","3">> /\ last.path = "send"
    /\ ~state[<<"c","1">>].enabled /\ state[<<"c","1">>].word # state[<<"c","3">>].word
    /\ state[<<"c","1">>].cooldownUntil # state[<<"c","3">>].cooldownUntil

====
